---- MODULE Spec2Model ----
(***************************************************************************)
(* Twitt_scrap_1.py: filter tweet links out of a CSV, load them, scrape    *)
(* each one in a pool of five worker threads, write the results to a CSV.  *)
(*                                                                         *)
(* Text is a sequence of tokens.  "H" stands for the literal               *)
(* https://x.com/ , "S" for the literal /status/ , "a" and "b" are         *)
(* letters, "1" is a digit, "n" is a newline, " " is a space.  In the      *)
(* files written by csv.writer "q" is the quote character and "rn" the     *)
(* line terminator \r\n.                                                   *)
(***************************************************************************)
EXTENDS Integers, Sequences, FiniteSets, TLC

VARIABLES
    pc,          \* position of the main thread
    infile,      \* input_csv as csv.reader yields it: rows of cells
    cleaned,     \* the text of cleaned_links.txt
    links,       \* the list get_links_from_csv returned
    site,        \* which pages the network can serve in this run
    fstate,      \* per submitted future: "PENDING", "RUNNING", "FINISHED"
    fout,        \* per future: the value or exception it holds
    queue,       \* the executor's work queue (futures not yet started)
    cpc,         \* per future: position of its call of scrape_tweet_metadata
    xhr_calls,   \* per call: the local list _xhr_calls
    username,    \* per call: the local username
    browser,     \* per call: playwright sessions it holds open
    web,         \* per future: the page its visit was served
    observed,    \* per future: responses of the page delivered so far
    finished0,   \* as_completed: futures found finished when it started
    waiting,     \* as_completed: its waiter is installed on the futures
    waiterq,     \* as_completed: waiter.finished_futures, in arrival order
    results,     \* scrape_all_tweets: the list results
    order,       \* the future behind each entry of results
    completion,  \* the futures in the order they finished
    pbar,        \* tqdm: the progress count
    outfile      \* the rows of romantyzujcie_meta.csv, empty before it is written

vars == <<pc, infile, cleaned, links, site, fstate, fout, queue, cpc,
          xhr_calls, username, browser, web, observed, finished0, waiting,
          waiterq, results, order, completion, pbar, outfile>>

(***************************************************************************)
(* Bounds of the model.                                                    *)
(***************************************************************************)
MaxRows == 2        \* rows of the input file
MaxCols == 2        \* cells of a row
MaxResponses == 2   \* responses a page sends
PoolLinks == 6      \* links of the batch that exercises the pool
MainCells == 2      \* cells of the input file of a whole run

max_workers == 5

\* Text values are token sequences: the sentinel of the program, and the
\* value of a local that is not set.
NA == <<"N/A">>
Unset == <<"unset">>

(***************************************************************************)
(* Helpers on sequences.                                                   *)
(***************************************************************************)
RECURSIVE FlattenRows(_)
FlattenRows(rows) ==
    IF rows = <<>> THEN <<>> ELSE Head(rows) \o FlattenRows(Tail(rows))

SeqsUpTo(S, n) == UNION {[1..k -> S] : k \in 0..n}

Min(S) == CHOOSE x \in S : \A y \in S : x <= y

(***************************************************************************)
(* Regular expressions of the program, on token sequences.                 *)
(***************************************************************************)
WordChars == {"a", "b", "1"}     \* \w
DigitChars == {"1"}              \* \d

AllIn(s, lo, hi, S) == \A i \in lo..hi : s[i] \in S

\* Python's $ : at the end of the string, or just before a newline that
\* ends the string.
AtDollar(s, k) == k = Len(s) \/ (k = Len(s) - 1 /\ s[Len(s)] = "n")

\* re.compile(r'https://x\.com/\w+/status/\d+$').match(s): anchored at the
\* start of s only.
RegexMatch(s) ==
    \E j \in 2..Len(s), k \in 4..Len(s) :
        /\ s[1] = "H"
        /\ AllIn(s, 2, j, WordChars)
        /\ j + 1 <= Len(s) /\ s[j + 1] = "S"
        /\ j + 2 <= k /\ AllIn(s, j + 2, k, DigitChars)
        /\ AtDollar(s, k)

\* re.search(r'https://x\.com/(\w+)/status/\d+', url): the places <<i, j>>
\* where the pattern matches from i with group 1 = url[i+1 .. j].
SearchMatches(url) ==
    {m \in (1..Len(url)) \X (1..Len(url)) :
        /\ url[m[1]] = "H"
        /\ m[1] + 1 <= m[2] /\ AllIn(url, m[1] + 1, m[2], WordChars)
        /\ m[2] + 2 <= Len(url)
        /\ url[m[2] + 1] = "S"
        /\ url[m[2] + 2] \in DigitChars}

extract_username_from_url(url) ==
    IF SearchMatches(url) = {} THEN NA
    ELSE LET i == Min({m[1] : m \in SearchMatches(url)})
             m == CHOOSE x \in SearchMatches(url) : x[1] = i
         IN  SubSeq(url, m[1] + 1, m[2])

(***************************************************************************)
(* csv.writer and csv.reader on the one-column file cleaned_links.txt.     *)
(***************************************************************************)
\* QUOTE_MINIMAL: a field holding a line break is quoted (the tokens hold
\* no comma and no quote character).
NeedsQuote(field) == \E i \in 1..Len(field) : field[i] = "n"

writerow(field) ==
    (IF NeedsQuote(field) THEN <<"q">> \o field \o <<"q">> ELSE field) \o <<"rn">>

RECURSIVE WriteAll(_)
WriteAll(fields) ==
    IF fields = <<>> THEN <<>> ELSE writerow(Head(fields)) \o WriteAll(Tail(fields))

\* The index of the first token of s, from position i on, that is in S;
\* Len(s) + 1 when there is none.
RECURSIVE FindFrom(_, _, _)
FindFrom(s, i, S) ==
    IF i > Len(s) THEN Len(s) + 1
    ELSE IF s[i] \in S THEN i ELSE FindFrom(s, i + 1, S)

\* csv.reader: the rows of the text; a row is a list of fields, a blank
\* line is the empty row.
RECURSIVE ReadRows(_)
ReadRows(text) ==
    IF text = <<>> THEN <<>>
    ELSE IF Head(text) = "q"
    THEN LET close == FindFrom(text, 2, {"q"})
             eol == FindFrom(text, close, {"rn", "n"})
         IN  <<<<SubSeq(text, 2, close - 1)
                   \o SubSeq(text, close + 1, eol - 1)>>>>
             \o ReadRows(SubSeq(text, eol + 1, Len(text)))
    ELSE LET eol == FindFrom(text, 1, {"rn", "n"})
         IN  <<(IF eol = 1 THEN <<>> ELSE <<SubSeq(text, 1, eol - 1)>>)>>
             \o ReadRows(SubSeq(text, eol + 1, Len(text)))

\* The loop of extract_valid_links over the cells: those regex.match accepts.
RECURSIVE MatchingCells(_)
MatchingCells(cells) ==
    IF cells = <<>> THEN <<>>
    ELSE (IF RegexMatch(Head(cells)) THEN <<Head(cells)>> ELSE <<>>)
         \o MatchingCells(Tail(cells))

\* extract_valid_links: the text written to output_csv.
extract_valid_links(rows) == WriteAll(MatchingCells(FlattenRows(rows)))

\* get_links_from_csv: the list returned.
get_links_from_csv(text) == FlattenRows(ReadRows(text))

(***************************************************************************)
(* Dictionaries, payloads, responses, pages, exceptions.                   *)
(***************************************************************************)
EmptyDict == [k \in {} |-> NA]

\* dict.get(key, default)
Get(d, key, default) == IF key \in DOMAIN d THEN d[key] ELSE default

LegacyKeys ==
    {"full_text", "created_at", "reply_count", "favorite_count", "retweet_count"}

\* What the keys of a legacy record hold when they are present.
LegacyValue ==
    [full_text |-> <<"hello">>, created_at |-> <<"Mon">>, reply_count |-> <<"7">>,
     favorite_count |-> <<"8">>, retweet_count |-> <<"9">>]

\* Legacy records: every key present, one key missing, one key present,
\* no key present.
LegacyRecords ==
    {[k \in D |-> LegacyValue[k]] :
        D \in {LegacyKeys, {}} \cup {LegacyKeys \ {k} : k \in LegacyKeys}
                \cup {{k} : k \in LegacyKeys}}

\* data['data']['tweetResult']['result']['legacy']
LegacyPath == <<"data", "tweetResult", "result", "legacy">>

RECURSIVE Wrap(_, _)
Wrap(path, leaf) ==
    IF path = <<>> THEN leaf
    ELSE [k \in {Head(path)} |-> Wrap(Tail(path), leaf)]

\* Parsed payloads: the nested path down to a legacy record, or the path
\* cut short after its first 0..3 keys.
Documents ==
    {Wrap(LegacyPath, leg) : leg \in LegacyRecords}
    \cup {Wrap(SubSeq(LegacyPath, 1, k), EmptyDict) : k \in 0..3}

\* A response body: text that json() parses into doc, or text it rejects.
Bodies ==
    {[parses |-> TRUE, doc |-> d] : d \in Documents}
    \cup {[parses |-> FALSE, doc |-> EmptyDict]}

FullBody == [parses |-> TRUE, doc |-> Wrap(LegacyPath, LegacyValue)]
BadBody == [parses |-> FALSE, doc |-> EmptyDict]

\* A response: its request's resource type, whether its url holds
\* "TweetResultByRestId", its body.  A response that is no xhr, or whose
\* url lacks the marker, carries the full payload.
Responses ==
    {[rtype |-> "xhr", marker |-> TRUE, body |-> b] : b \in Bodies}
    \cup {[rtype |-> "xhr", marker |-> FALSE, body |-> FullBody],
          [rtype |-> "fetch", marker |-> TRUE, body |-> FullBody],
          [rtype |-> "fetch", marker |-> FALSE, body |-> FullBody]}

TweetResponse == [rtype |-> "xhr", marker |-> TRUE, body |-> FullBody]
BadResponse == [rtype |-> "xhr", marker |-> TRUE, body |-> BadBody]

\* A page: whether page.goto and page.wait_for_selector return or raise,
\* and the responses it sends, in the order they arrive.
Page(nav, ready, resps) == [nav |-> nav, ready |-> ready, responses |-> resps]

\* The pages of a site.  "all": every page of up to MaxResponses responses;
\* "main": one page for each way a visit can end; "pool": the page that
\* loads and sends no response.
PagesOf(s) ==
    CASE s = "all" ->
            {Page(nav, ready, r) : nav \in {"ok", "raise"}, ready \in {"ok", "raise"},
                                   r \in SeqsUpTo(Responses, MaxResponses)}
      [] s = "main" ->
            {Page("raise", "ok", <<>>), Page("ok", "raise", <<>>), Page("ok", "ok", <<>>),
             Page("ok", "ok", <<TweetResponse>>), Page("ok", "ok", <<BadResponse>>)}
      [] s = "pool" -> {Page("ok", "ok", <<>>)}
      [] OTHER -> {}

\* The exception classes that derive from Exception.
ExceptionClasses == {"Error", "TimeoutError", "JSONDecodeError", "KeyError"}

Raise(class, msg) == [kind |-> "exception", val |-> [class |-> class, msg |-> <<msg>>]]
Return(val) == [kind |-> "result", val |-> val]

RECURSIVE Navigate(_, _)
Navigate(doc, path) ==
    IF path = <<>> THEN [ok |-> TRUE, val |-> doc]
    ELSE IF Head(path) \in DOMAIN doc
         THEN Navigate(doc[Head(path)], Tail(path))
         ELSE [ok |-> FALSE, val |-> Head(path)]

(***************************************************************************)
(* scrape_tweet_metadata, lines 94-120: what the call returns or raises    *)
(* once the page is ready, from the captured responses.                    *)
(***************************************************************************)
HasMarker(r) == r.marker

tweet_calls(calls) == SelectSeq(calls, HasMarker)

tweet_metadata(result, uname) ==
    [text |-> Get(result, "full_text", NA),
     username |-> uname,
     date |-> Get(result, "created_at", NA),
     comment_count |-> Get(result, "reply_count", NA),
     like_count |-> Get(result, "favorite_count", NA),
     share_count |-> Get(result, "retweet_count", NA)]

\* Mutant of default_metadata: username is N/A like the other fields.
default_metadata_all_na(uname) ==
    [text |-> NA, username |-> NA, date |-> NA, comment_count |-> NA,
     like_count |-> NA, share_count |-> NA]

default_metadata(uname) ==
    [text |-> NA, username |-> uname, date |-> NA, comment_count |-> NA,
     like_count |-> NA, share_count |-> NA]

\* The body of the for loop over tweet_calls: it returns or raises on its
\* first pass.
FromResponse(xhr, uname) ==
    IF ~xhr.body.parses THEN Raise("JSONDecodeError", "Expecting value")
    ELSE LET nav == Navigate(xhr.body.doc, LegacyPath)
         IN  IF nav.ok THEN Return(tweet_metadata(nav.val, uname))
             ELSE Raise("KeyError", nav.val)

\* Mutant of Inspected: the last matching response is used.
InspectedLast(calls, uname) ==
    IF tweet_calls(calls) = <<>> THEN Return(default_metadata(uname))
    ELSE FromResponse(tweet_calls(calls)[Len(tweet_calls(calls))], uname)

Inspected(calls, uname) ==
    IF tweet_calls(calls) = <<>> THEN Return(default_metadata(uname))
    ELSE FromResponse(tweet_calls(calls)[1], uname)

(***************************************************************************)
(* The main thread: __main__ and scrape_all_tweets.                        *)
(***************************************************************************)
Futures == 1..Len(fstate)

NoOutcome == [kind |-> "none"]
NoPage == [nav |-> "none"]

mainVars == <<pc, infile, cleaned, links, site, outfile>>
poolVars == <<fstate, fout, queue, cpc, xhr_calls, username, browser,
              web, observed, completion>>
drainVars == <<finished0, waiting, waiterq, results, order, pbar>>

\* extract_valid_links(input_csv, output_csv)
ExtractValidLinks ==
    /\ pc = "filter"
    /\ cleaned' = extract_valid_links(infile)
    /\ pc' = "load"
    /\ UNCHANGED <<infile, links, site, outfile, poolVars, drainVars>>

\* links = get_links_from_csv(output_csv)
GetLinksFromCsv ==
    /\ pc = "load"
    /\ links' = get_links_from_csv(cleaned)
    /\ pc' = "submit"
    /\ UNCHANGED <<infile, cleaned, site, outfile, poolVars, drainVars>>

\* One pass of the dict comprehension: executor.submit(scrape_tweet_metadata, link)
Submit ==
    /\ pc = "submit"
    /\ Len(fstate) < Len(links)
    /\ fstate' = Append(fstate, "PENDING")
    /\ fout' = Append(fout, NoOutcome)
    /\ web' = Append(web, NoPage)
    /\ observed' = Append(observed, 0)
    /\ cpc' = Append(cpc, "queued")
    /\ xhr_calls' = Append(xhr_calls, <<>>)
    /\ username' = Append(username, Unset)
    /\ browser' = Append(browser, 0)
    /\ queue' = Append(queue, Len(fstate) + 1)
    /\ UNCHANGED <<mainVars, completion, drainVars>>

\* tqdm(total=len(links)) and the start of as_completed(future_to_link):
\* the futures already finished are set aside, the waiter is installed on
\* all of them.
AsCompleted ==
    /\ pc = "submit"
    /\ Len(fstate) = Len(links)
    /\ finished0' = {f \in Futures : fstate[f] = "FINISHED"}
    /\ waiting' = TRUE
    /\ pbar' = 0
    /\ pc' = "drain"
    /\ UNCHANGED <<infile, cleaned, links, site, outfile, poolVars, waiterq,
                   results, order>>

\* Mutant of Catches: except TimeoutError as e
CatchesTimeoutOnly(e) == e.class = "TimeoutError"

\* except Exception as e
Catches(e) == e.class \in ExceptionClasses

Truthy(metadata) == DOMAIN metadata # {}

\* Mutant of Entry: the error entry drops the description of the exception.
EntryWithoutDescription(link, out) ==
    IF out.kind = "result"
    THEN <<link, out.val>>
    ELSE <<link, [error |-> <<"Could not scrape">>]>>

\* Lines 188-194: the entry appended for a finished future.
Entry(link, out) ==
    IF out.kind = "result"
    THEN <<link, IF Truthy(out.val) THEN out.val ELSE [error |-> <<"Could not scrape">>]>>
    ELSE <<link, [error |-> <<"Error: ">> \o out.val.msg]>>

\* The futures as_completed can yield next: those set aside at its start in
\* any order (they are kept in a set), then the others as they finished.
Yieldable ==
    IF finished0 # {} THEN finished0
    ELSE IF waiterq # <<>> THEN {Head(waiterq)} ELSE {}

\* One pass of the loop over as_completed, lines 186-195.
Drain(f) ==
    /\ pc = "drain"
    /\ f \in Yieldable
    /\ finished0' = finished0 \ {f}
    /\ waiterq' = IF finished0 = {} THEN Tail(waiterq) ELSE waiterq
    /\ IF fout[f].kind = "exception" /\ ~Catches(fout[f].val)
       THEN /\ pc' = "crashed"
            /\ UNCHANGED <<results, order, pbar>>
       ELSE /\ results' = Append(results, Entry(links[f], fout[f]))
            /\ order' = Append(order, f)
            /\ pbar' = pbar + 1
            /\ pc' = pc
    /\ UNCHANGED <<infile, cleaned, links, site, outfile, poolVars, waiting>>

\* Mutant of ReturnResults: the loop is left before every future was yielded.
ReturnEarly ==
    /\ pc = "drain"
    /\ pc' = "save"
    /\ UNCHANGED <<infile, cleaned, links, site, outfile, poolVars, drainVars>>

\* as_completed is exhausted, the executor shuts down, scrape_all_tweets
\* returns results.
ReturnResults ==
    /\ pc = "drain"
    /\ Len(order) = Len(links)
    /\ pc' = "save"
    /\ UNCHANGED <<infile, cleaned, links, site, outfile, poolVars, drainVars>>

Header ==
    <<<<"Link">>, <<"Text">>, <<"Username">>, <<"Date">>, <<"Comment Count">>,
      <<"Like Count">>, <<"Share Count">>>>

\* The row csv_writer.writerow gets for one result, lines 155-163.
Row(result) ==
    <<result[1],
      Get(result[2], "text", NA),
      Get(result[2], "username", NA),
      Get(result[2], "date", NA),
      Get(result[2], "comment_count", NA),
      Get(result[2], "like_count", NA),
      Get(result[2], "share_count", NA)>>

\* Mutant of save_results_to_csv: the rows are written last result first.
save_results_reversed(res) ==
    <<Header>> \o [i \in 1..Len(res) |-> Row(res[Len(res) + 1 - i])]

save_results_to_csv(res) == <<Header>> \o [i \in 1..Len(res) |-> Row(res[i])]

SaveResults ==
    /\ pc = "save"
    /\ outfile' = save_results_to_csv(results)
    /\ pc' = "done"
    /\ UNCHANGED <<infile, cleaned, links, site, poolVars, drainVars>>

(***************************************************************************)
(* The worker threads: each takes a work item and runs                     *)
(* scrape_tweet_metadata for it.  The state of a call is kept per future.  *)
(***************************************************************************)
Running == {f \in Futures : fstate[f] = "RUNNING"}

\* Mutant of IdleWorker: a thread is started for every work item.
ThreadPerItem == TRUE

\* A thread of the pool is free to take a work item.
IdleWorker == Cardinality(Running) < max_workers

\* Mutant of CallFrame: _xhr_calls is one list of the module.
SharedFrame(f) == 1

\* The list the response handler of call f appends to: _xhr_calls is a
\* local of the call.
CallFrame(f) == f

\* Mutant of AfterExit: the browser is closed at the end of the normal path
\* only.
AfterExitLeaking(n, out) == IF out.kind = "exception" THEN n ELSE n - 1

\* The sessions a call holds once its with block is left, by return or by
\* exception.
AfterExit(n, out) == n - 1

\* Lines 71-88: a free worker takes the next work item; the call creates
\* its locals, starts playwright, launches the browser and attaches the
\* handler.  The network serves the visit one of the pages of the site.
TakeWork(f) ==
    /\ queue # <<>>
    /\ f = Head(queue)
    /\ IdleWorker
    /\ queue' = Tail(queue)
    /\ fstate' = [fstate EXCEPT ![f] = "RUNNING"]
    /\ \E p \in PagesOf(site) : web' = [web EXCEPT ![f] = p]
    /\ username' = [username EXCEPT ![f] = extract_username_from_url(links[f])]
    /\ xhr_calls' = [xhr_calls EXCEPT ![CallFrame(f)] = <<>>]
    /\ browser' = [browser EXCEPT ![f] = @ + 1]
    /\ cpc' = [cpc EXCEPT ![f] = "goto"]
    /\ UNCHANGED <<mainVars, fout, observed, completion, drainVars>>

\* intercept_response: the page delivers its next response while the call
\* is inside page.goto or page.wait_for_selector.
Intercept(f) ==
    /\ cpc[f] \in {"goto", "wait"}
    /\ observed[f] < Len(web[f].responses)
    /\ observed' = [observed EXCEPT ![f] = @ + 1]
    /\ LET response == web[f].responses[observed[f] + 1] IN
        xhr_calls' = IF response.rtype = "xhr"
                     THEN [xhr_calls EXCEPT ![CallFrame(f)] = Append(@, response)]
                     ELSE xhr_calls
    /\ UNCHANGED <<mainVars, fstate, fout, queue, cpc, username, browser,
                   web, completion, drainVars>>

\* Call f ends with `out`: the with block is left, the future is set and
\* the waiter of as_completed, if installed, is told.
Exit(f, out) ==
    /\ browser' = [browser EXCEPT ![f] = AfterExit(@, out)]
    /\ fstate' = [fstate EXCEPT ![f] = "FINISHED"]
    /\ fout' = [fout EXCEPT ![f] = out]
    /\ completion' = Append(completion, f)
    /\ waiterq' = IF waiting THEN Append(waiterq, f) ELSE waiterq
    /\ cpc' = [cpc EXCEPT ![f] = "done"]
    /\ username' = [username EXCEPT ![f] = Unset]
    /\ xhr_calls' = [xhr_calls EXCEPT ![CallFrame(f)] = <<>>]
    /\ UNCHANGED <<mainVars, queue, web, observed, finished0, waiting, results,
                   order, pbar>>

\* page.goto(url), line 91
Goto(f) ==
    /\ cpc[f] = "goto"
    /\ IF web[f].nav = "ok"
       THEN /\ cpc' = [cpc EXCEPT ![f] = "wait"]
            /\ UNCHANGED <<mainVars, fstate, fout, queue, xhr_calls,
                           username, browser, web, observed, completion, drainVars>>
       ELSE Exit(f, Raise("Error", "net::ERR"))

\* page.wait_for_selector("[data-testid='tweet']"), line 92
WaitForSelector(f) ==
    /\ cpc[f] = "wait"
    /\ IF web[f].ready = "ok"
       THEN /\ cpc' = [cpc EXCEPT ![f] = "inspect"]
            /\ UNCHANGED <<mainVars, fstate, fout, queue, xhr_calls,
                           username, browser, web, observed, completion, drainVars>>
       ELSE Exit(f, Raise("TimeoutError", "Timeout exceeded"))

\* Lines 94-120: the captured responses are filtered and the call returns
\* or raises.
Inspect(f) ==
    /\ cpc[f] = "inspect"
    /\ Exit(f, Inspected(xhr_calls[CallFrame(f)], username[f]))

(***************************************************************************)
(* Specifications.                                                         *)
(***************************************************************************)
TweetLink == <<"H", "a", "S", "1">>
NewlineLink == <<"H", "b", "S", "1", "n">>
NotALink == <<"a", " ", "b">>

\* Cells of an input file: links, near misses and other text.
SampleCells ==
    {TweetLink,
     NewlineLink,
     NotALink,
     <<"H", "b", "1", "S", "1", "1">>,
     <<"H", "a", "S", "1", " ">>,
     <<" ", "H", "a", "S", "1">>,
     <<"H", "a", "S", "1", "S", "a">>,
     <<"H", "S", "1">>,
     <<"H", "a", "S">>,
     <<"H", "a", " ", "S", "1">>,
     <<>>}

\* The state before anything was submitted.
Idle ==
    /\ fstate = <<>> /\ fout = <<>> /\ queue = <<>>
    /\ web = <<>> /\ observed = <<>>
    /\ cpc = <<>> /\ xhr_calls = <<>> /\ username = <<>> /\ browser = <<>>
    /\ finished0 = {} /\ waiting = FALSE /\ waiterq = <<>>
    /\ results = <<>> /\ order = <<>> /\ completion = <<>>
    /\ pbar = 0
    /\ outfile = <<>>

\* A whole run of the script on a small input file.
Init ==
    /\ pc = "filter"
    /\ infile \in {<<>>} \cup {<<row>> : row \in SeqsUpTo({TweetLink, NotALink}, MainCells)}
    /\ cleaned = <<>> /\ links = <<>>
    /\ site = "main"
    /\ Idle

MainStep ==
    \/ ExtractValidLinks
    \/ GetLinksFromCsv
    \/ SaveResults

CollectStep ==
    \/ AsCompleted
    \/ \E f \in Futures : Drain(f)
    \/ ReturnResults

VisitStep ==
    \/ Submit
    \/ \E f \in Futures : TakeWork(f)
    \/ \E f \in Futures : Goto(f)
    \/ \E f \in Futures : WaitForSelector(f)
    \/ \E f \in Futures : Inspect(f)

InterceptStep == \E f \in Futures : Intercept(f)

Next == MainStep \/ CollectStep \/ VisitStep \/ InterceptStep

Spec == Init /\ [][Next]_vars

\* The threads keep being scheduled, and every page visit ends.
FairSpec == Spec /\ WF_vars(Next)

\* The link filter and the loader on every file of sample cells.
InitFilter ==
    /\ pc = "filter"
    /\ infile \in SeqsUpTo(SeqsUpTo(SampleCells, MaxCols), MaxRows)
    /\ cleaned = <<>> /\ links = <<>>
    /\ site = "none"
    /\ Idle

NextFilter == ExtractValidLinks \/ GetLinksFromCsv

SpecFilter == InitFilter /\ [][NextFilter]_vars

\* The pool on a batch larger than itself: submission and the workers.
\* The pages send no response, so no handler runs.
InitPool ==
    /\ pc = "submit"
    /\ infile = <<>> /\ cleaned = <<>>
    /\ links = [i \in 1..PoolLinks |-> TweetLink]
    /\ site = "pool"
    /\ Idle

SpecPool == InitPool /\ [][VisitStep]_vars

\* scrape_all_tweets on one link, for every page.
InitVisit ==
    /\ pc = "submit"
    /\ infile = <<>> /\ cleaned = <<>>
    /\ links \in {<<u>> : u \in {TweetLink, NotALink, <<"H", "a", "b", "S", "1", " ">>}}
    /\ site = "all"
    /\ Idle

NextVisit == CollectStep \/ VisitStep \/ InterceptStep

SpecVisit == InitVisit /\ [][NextVisit]_vars

(***************************************************************************)
(* Properties.                                                             *)
(***************************************************************************)
InFlight == {f \in Futures : cpc[f] \in {"goto", "wait", "inspect"}}

Count(seq, x) == Cardinality({i \in 1..Len(seq) : seq[i] = x})

NoDuplicates(seq) == \A i, j \in 1..Len(seq) : seq[i] = seq[j] => i = j

\* The responses call f was delivered, those of them its handler keeps,
\* and those of the kept ones whose url holds the marker.
Delivered(f) == SubSeq(web[f].responses, 1, observed[f])
IsXhr(r) == r.rtype = "xhr"
Captured(f) == SelectSeq(Delivered(f), IsXhr)
MarkerInUrl(r) == r.marker
Matching(f) == SelectSeq(Captured(f), MarkerInUrl)

\* The author segment of a url: what stands between the host and /status/
\* where the url holds host, author, /status/ and a digit; N/A otherwise.
AuthorPlaces(url) ==
    {i \in 1..Len(url) :
        /\ url[i] = "H"
        /\ \E j \in (i + 1)..(Len(url) - 2) :
              /\ \A k \in (i + 1)..j : url[k] \in {"a", "b", "1"}
              /\ url[j + 1] = "S"
              /\ url[j + 2] = "1"}

ClaimAuthor(url) ==
    IF AuthorPlaces(url) = {} THEN <<"N/A">>
    ELSE LET i == CHOOSE x \in AuthorPlaces(url) : \A y \in AuthorPlaces(url) : x <= y
             j == CHOOSE y \in (i + 1)..Len(url) : url[y + 1] = "S"
                     /\ \A k \in (i + 1)..y : url[k] # "S"
         IN  SubSeq(url, i + 1, j)

HasLegacy(doc) ==
    /\ "data" \in DOMAIN doc
    /\ "tweetResult" \in DOMAIN doc.data
    /\ "result" \in DOMAIN doc.data.tweetResult
    /\ "legacy" \in DOMAIN doc.data.tweetResult.result

LegacyOf(doc) == doc.data.tweetResult.result.legacy

Lookup(rec, key) == IF key \in DOMAIN rec THEN rec[key] ELSE <<"N/A">>

AllNA(author) ==
    [text |-> <<"N/A">>, username |-> author, date |-> <<"N/A">>,
     comment_count |-> <<"N/A">>, like_count |-> <<"N/A">>, share_count |-> <<"N/A">>]

\* Whether the visit of f ends by an exception, judged from its own page.
OwnVisitRaises(f) ==
    \/ web[f].nav = "raise"
    \/ web[f].ready = "raise"
    \/ /\ Matching(f) # <<>>
       /\ ~(Matching(f)[1].body.parses /\ HasLegacy(Matching(f)[1].body.doc))

\* The text a visit that returns must report, judged from its own page.
OwnText(f) ==
    IF Matching(f) = <<>> THEN <<"N/A">>
    ELSE Lookup(LegacyOf(Matching(f)[1].body.doc), "full_text")

ClaimHeader ==
    <<<<"Link">>, <<"Text">>, <<"Username">>, <<"Date">>, <<"Comment Count">>,
      <<"Like Count">>, <<"Share Count">>>>

ClaimRow(result) ==
    IF "error" \in DOMAIN result[2]
    THEN <<result[1], <<"N/A">>, <<"N/A">>, <<"N/A">>, <<"N/A">>, <<"N/A">>, <<"N/A">>>>
    ELSE <<result[1], result[2].text, result[2].username, result[2].date,
           result[2].comment_count, result[2].like_count, result[2].share_count>>

\* C1: every submitted link occurrence contributes exactly one entry of
\* results: no future has two entries, every entry pairs the link of its
\* future with a result, a link never has more entries than submitted
\* occurrences, and when scrape_all_tweets has returned there are exactly
\* as many entries as links, one for every future.
C1_OneEntryPerLink ==
    /\ Len(results) = Len(order)
    /\ NoDuplicates(order)
    /\ \A i \in 1..Len(order) : order[i] \in Futures /\ results[i][1] = links[order[i]]
    /\ \A f \in Futures :
          Count([i \in 1..Len(results) |-> results[i][1]], links[f])
             <= Count(SubSeq(links, 1, Len(fstate)), links[f])
    /\ pc \in {"save", "done"} =>
          /\ Len(results) = Len(links)
          /\ \A f \in 1..Len(links) : Count(order, f) = 1

\* C1 witness: the batch of twice the same link has returned, one visit
\* having raised and the other having returned metadata.
C1_Witness ==
    /\ pc = "save"
    /\ Len(links) = 2 /\ links[1] = links[2]
    /\ Len(results) = 2
    /\ fout[1].kind = "exception"
    /\ fout[2].kind = "result" /\ fout[2].val.text = <<"hello">>

\* C2: an exception of a visit is caught: the run never dies of it, the
\* entry of that link carries the description of the exception, every
\* future completes once (no retry) and every submitted future has its
\* entry when scrape_all_tweets returns (none is cancelled); whether a
\* visit raises depends on its own page alone, and the entry of a visit
\* that returned is what it returned.
C2_FailureIsolated ==
    /\ pc # "crashed"
    /\ NoDuplicates(completion)
    /\ \A i \in 1..Len(order) :
          LET f == order[i] IN
          /\ fout[f].kind = "exception" <=> OwnVisitRaises(f)
          /\ fout[f].kind = "exception" =>
                results[i] = <<links[f], [error |-> <<"Error: ">> \o fout[f].val.msg]>>
          /\ fout[f].kind = "result" => results[i] = <<links[f], fout[f].val>>
    /\ pc \in {"save", "done"} =>
          \A f \in 1..Len(links) : fstate[f] = "FINISHED" /\ Count(order, f) = 1

\* C2 witness: the first link's wait for the page timed out, the second
\* link's visit returned metadata, and both entries are in results.
C2_Witness ==
    /\ pc = "save"
    /\ Len(results) = 2
    /\ fout[1].kind = "exception" /\ fout[1].val.class = "TimeoutError"
    /\ fout[2].kind = "result" /\ fout[2].val.text = <<"hello">>
    /\ \E i \in 1..2 : results[i][2] = [error |-> <<"Error: ", "Timeout exceeded">>]

\* C3: at most 5 visits are in flight at any time, a visit holds at most
\* one browser session, and only a visit in flight holds one.
C3_AtMostFiveInFlight ==
    /\ Cardinality(InFlight) <= 5
    /\ \A f \in Futures : browser[f] \in {0, 1} /\ (browser[f] = 1 => f \in InFlight)
    /\ \A f \in Futures :
          cpc[f] # "queued" =>
             Cardinality({g \in Futures : cpc[g] = "done"}) >= f - 5

\* C3 witness: the sixth link is being visited, with four of the first
\* five, after one of them ended.
C3_Witness ==
    /\ Len(cpc) >= 6
    /\ cpc[6] \in {"goto", "wait", "inspect"}
    /\ Cardinality(InFlight) = 5
    /\ Cardinality({g \in Futures : cpc[g] = "done"}) = 1

\* C4: a call that has ended, by return or by exception, holds no browser
\* session; the open sessions are never more than the visits in flight,
\* and none is open once the batch has finished.
C4_SessionsReleased ==
    /\ \A f \in Futures : cpc[f] = "done" => browser[f] = 0
    /\ \A f \in Futures : browser[f] \in {0, 1}
    /\ Cardinality({f \in Futures : browser[f] > 0}) <= Cardinality(InFlight)
    /\ pc \in {"save", "done"} => \A f \in Futures : browser[f] = 0

\* C4 witness: the batch has finished after one visit raised from payload
\* parsing and another raised from navigation.
C4_Witness ==
    /\ pc = "save"
    /\ Len(links) = 2
    /\ fout[1].kind = "exception" /\ fout[1].val.class = "JSONDecodeError"
    /\ fout[2].kind = "exception" /\ fout[2].val.class = "Error"

\* C5: provided every visit ends, the run reaches the end of the result
\* writer with an output file made of the header row and one row per link.
C5_OutputFileCompleted ==
    <>(/\ pc = "done"
       /\ Len(outfile) = 1 + Len(links)
       /\ outfile[1] = ClaimHeader
       /\ \A f \in 1..Len(links) :
             Count([i \in 1..Len(links) |-> outfile[i + 1][1]], links[f])
                = Count(links, links[f]))

\* C5 witness: the output file is complete though every link failed.
C5_Witness ==
    /\ pc = "done"
    /\ Len(links) = 2
    /\ Len(outfile) = 3
    /\ \A f \in 1..2 : fout[f].kind = "exception"

C7_DefaultRecord ==
    \A f \in Futures :
        (/\ cpc[f] = "done"
         /\ web[f].nav = "ok" /\ web[f].ready = "ok"
         /\ \A i \in 1..observed[f] : ~web[f].responses[i].marker)
        => fout[f] = [kind |-> "result", val |-> AllNA(ClaimAuthor(links[f]))]

\* C7 witness: a visit of a tweet link ended after two responses without
\* the marker were delivered.
C7_Witness ==
    \E f \in Futures :
        /\ cpc[f] = "done"
        /\ links[f] = <<"H", "a", "S", "1">>
        /\ web[f].nav = "ok" /\ web[f].ready = "ok"
        /\ observed[f] = 2
        /\ \A i \in 1..2 : ~web[f].responses[i].marker
        /\ fout[f].val.username = <<"a">>

\* C9: while a call runs, its list of captured responses holds exactly the
\* xhr responses its own page delivered, in order, whatever the other
\* calls do, and what the call returns or raises is decided by them alone;
\* an entry is added to results only by a step of the loop over
\* completions, in which no call moves.
C9_PrivateCapture ==
    [][/\ \A f \in Futures :
             cpc'[f] \in {"goto", "wait", "inspect"} =>
                xhr_calls'[f] = SelectSeq(SubSeq(web'[f].responses, 1, observed'[f]), IsXhr)
       /\ \A f \in Futures :
             cpc'[f] = "done" =>
                /\ (fout'[f].kind = "exception") = OwnVisitRaises(f)'
                /\ fout'[f].kind = "result" => fout'[f].val.text = OwnText(f)'
       /\ results' # results =>
             /\ pc = "drain"
             /\ Len(results') = Len(results) + 1
             /\ cpc' = cpc /\ fstate' = fstate /\ fout' = fout /\ xhr_calls' = xhr_calls]_vars

\* C9 witness: two visits are in flight, each having captured the response
\* of its own page.
C9_Witness ==
    /\ Len(cpc) = 2
    /\ cpc[1] = "wait" /\ cpc[2] = "wait"
    /\ xhr_calls[1] = <<[rtype |-> "xhr", marker |-> TRUE, body |-> FullBody]>>
    /\ xhr_calls[2] = <<[rtype |-> "xhr", marker |-> TRUE, body |-> BadBody]>>

\* What C10 says of a visit that ended: it raised when navigation or the
\* wait for the ready element raised; otherwise the first captured response
\* with the marker decides, and without one the default is returned.
DecidedByFirstMatch(f, FieldsOk(_, _)) ==
    IF web[f].nav = "raise" \/ web[f].ready = "raise"
    THEN fout[f].kind = "exception"
    ELSE IF Matching(f) = <<>>
    THEN fout[f].kind = "result" /\ fout[f].val.text = <<"N/A">>
    ELSE LET body == Matching(f)[1].body IN
         IF body.parses /\ HasLegacy(body.doc)
         THEN fout[f].kind = "result" /\ FieldsOk(f, LegacyOf(body.doc))
         ELSE fout[f].kind = "exception"

SixFromRecord(f, legacy) ==
    \A field \in DOMAIN fout[f].val :
        fout[f].val[field] \in {legacy[k] : k \in DOMAIN legacy} \cup {<<"N/A">>}

FiveFromRecord(f, legacy) ==
    fout[f].val =
        [text |-> Lookup(legacy, "full_text"),
         username |-> ClaimAuthor(links[f]),
         date |-> Lookup(legacy, "created_at"),
         comment_count |-> Lookup(legacy, "reply_count"),
         like_count |-> Lookup(legacy, "favorite_count"),
         share_count |-> Lookup(legacy, "retweet_count")]

\* C10 as stated: the first captured response with the marker decides the
\* visit, and when its payload holds the legacy record each of the six
\* fields of the result is a value of that record, or N/A.
C10_SixFieldsFromRecord ==
    \A f \in Futures : cpc[f] = "done" => DecidedByFirstMatch(f, SixFromRecord)

\* C10 amended: the first captured response with the marker decides the
\* visit, among all those delivered before the page was ready; when its
\* payload holds the legacy record, text, date, comment_count, like_count
\* and share_count are looked up in it, N/A for a missing key, and
\* username is the author segment of the link; when it does not parse or
\* lacks the path the visit raises; later responses are not consulted.
C10_FirstMatchDecides ==
    \A f \in Futures : cpc[f] = "done" => DecidedByFirstMatch(f, FiveFromRecord)

\* C10 witness: a visit ended by an exception on an unparseable first
\* matching response although a second one with the full record had been
\* captured.
C10_Witness ==
    \E f \in Futures :
        /\ cpc[f] = "done"
        /\ web[f].nav = "ok" /\ web[f].ready = "ok"
        /\ Len(Matching(f)) = 2
        /\ Matching(f)[1].body = BadBody
        /\ Matching(f)[2].body = FullBody
        /\ fout[f].kind = "exception"

(***************************************************************************)
(* The link filter.                                                        *)
(***************************************************************************)
\* The physical lines of a text: split at every line break.
RECURSIVE TextLines(_)
TextLines(text) ==
    IF text = <<>> THEN <<>>
    ELSE LET eol == FindFrom(text, 1, {"rn", "n"})
         IN  <<SubSeq(text, 1, eol - 1)>>
             \o TextLines(SubSeq(text, eol + 1, Len(text)))

\* A tweet url: host, author, /status/, numeric id and nothing else.
IsTweetUrl(c) ==
    \E j \in 2..(Len(c) - 2) :
        /\ c[1] = "H"
        /\ \A k \in 2..j : c[k] \in {"a", "b", "1"}
        /\ c[j + 1] = "S"
        /\ \A k \in (j + 2)..Len(c) : c[k] = "1"

RECURSIVE TweetUrls(_)
TweetUrls(cells) ==
    IF cells = <<>> THEN <<>>
    ELSE (IF IsTweetUrl(Head(cells)) THEN <<Head(cells)>> ELSE <<>>)
         \o TweetUrls(Tail(cells))

\* C8: the lines of the filtered file are exactly the cells of the input
\* that are tweet urls, one per line, in the order of the input.
C8_ExactlyTheTweetUrls ==
    pc # "filter" => TextLines(cleaned) = TweetUrls(FlattenRows(infile))

====
